---- MODULE Spec2Model ----
(***************************************************************************)
(* webspace.py: satellite pass detection against a ground observer.        *)
(*                                                                         *)
(* The Streamlit script is modelled as a state machine.  One script run    *)
(* geocodes the address, then serves at most one button: "add TLE" or      *)
(* "start analysis".  The analysis handler walks st.session_state.tle_list *)
(* and calls detect_pass_pairs for every entry that has exactly three      *)
(* non-empty lines; the sample loop of detect_pass_pairs is taken one      *)
(* sample at a time.                                                       *)
(*                                                                         *)
(* External collaborators (CelesTrak, Nominatim, the SGP4 propagator, the  *)
(* wall clock) are the environment: their answers are drawn from small     *)
(* sets.  Times are whole seconds of UTC.  A text is the sequence of its   *)
(* lines, a blank (whitespace-only) line being "".  Python's None and ""   *)
(* are the empty tuple << >>, a present number v is << v >>.  Floats are   *)
(* integers in units of 1e-4 before rounding and of 1e-3 after it.         *)
(*                                                                         *)
(* The grid has GridLen instants instead of hours * 60 (at least 720): the *)
(* loop of lines 63-98 treats every instant alike.  GridSpec builds the    *)
(* grid of line 58 in its real length for every horizon of the selectbox.  *)
(* A session is a sequence of script runs: after a run has ended the user  *)
(* may touch the page again, and only st.session_state.tle_list survives.  *)
(***************************************************************************)
EXTENDS Integers, Sequences, FiniteSets, TLC

\* ---------------------------------------------------------------- bounds

\* Number of sample instants of one scan; stands for hours * 60 (line 58).
GridLen == 4
\* Largest number of entries st.session_state.tle_list may hold.
MaxBatch == 2

\* ------------------------------------------------------ program constants

StepSeconds == 60
ObserverElevation == 38
KstOffsetSeconds == 32400
HttpOk == 200
MinTleLines == 3
TleTripleLen == 3
SecondsPerDay == 86400
SecondsPerHour == 3600
SecondsPerMinute == 60
MinutesPerHour == 60
DefaultHours == 72

\* ------------------------------------------------------------ environment

None == << >>
Blank == << >>

\* Wall-clock readings (seconds of UTC) at which an analysis may start:
\* 14:59:00 UTC, one minute before midnight in Asia/Seoul.
StartClocks == {53940}

\* Whole seconds of wall clock one detect_pass_pairs call may take.
ElapsedSeconds == {0, 1}

\* Slider values of the radius: the widget's default and one step below it.
RadiusOptions == {900, 1000}

\* The horizons the selectbox offers, in hours.
HourOptions == {12, 24, 48, 72, 96, 120, 144, 168}

\* The horizon selected in the sessions of Spec, the widget's default: the
\* grid of Spec has GridLen instants whatever the horizon.
HourChoices == {DefaultHours}

\* The column header of the result table.
Columns ==
    <<"Common Name", "Start Time (LCLG)", "Start Tgt CBF Lat (deg)",
      "Start Tgt CBF Lon (deg)", "Start Tgt CBF Alt (km)",
      "Start LH HorizVel (km/sec)", "Stop Time (LCLG)",
      "Stop Tgt CBF Lat (deg)", "Stop Tgt CBF Lon (deg)",
      "Stop Tgt CBF Alt (km)", "Stop LH HorizVel (km/sec)", "Duration (sec)">>

\* Slant ranges the propagator may return: inside, on and outside the radius.
DistValues == {900, 1000, 1100}

\* The slant range of the sample whose latitude round() rejects.
InsideDist == 900

\* Slant ranges computed at a sample whose sub-point then fails: inside and
\* outside the radius.
FailDistValues == {900, 1100}

\* The float that is not a number, which the propagator returns for the
\* position after an SGP4 error: as a model value, a number no slant range
\* and no radius takes.
NaN == -1

\* Nominatim answers: the geocoder raises (timeout, service unavailable),
\* finds nothing, or finds Seoul (degrees * 10000).
GeoAnswers ==
    {[raised |-> TRUE, location |-> None],
     [raised |-> FALSE, location |-> None],
     [raised |-> FALSE, location |-> <<375665, 1269780>>]}

\* The sub-point the propagator returns (degrees and km, * 10000).
SubPointFound == [lat |-> <<123456>>, lon |-> <<1274444>>, alt |-> <<4081236>>]

\* What the attributes of the sub-point may hold: numbers, or in the place
\* of the latitude a value round() rejects (None).
SubPoints == {SubPointFound, [SubPointFound EXCEPT !.lat = None]}

\* The first two components of the velocity vector (km/s * 10000).
Velocities == {<<7004, 24000>>}

\* One evaluation of satellite/observer at one instant:
\*   raises: the line of the try body that raises: 65 (satellite.at, the
\*           difference or the distance, lines 65-67), 68 (subpoint()), 69,
\*           70, 71 (the read of latitude.degrees, longitude.degrees,
\*           elevation.km), or 0 when none does;
\*   dist  : << d >>, d being NaN or a slant range, None when not computed;
\*   sub   : an element of SubPoints, None when subpoint() did not return;
\*   vel   : velocity components, None when sat.velocity raises (line 48)
\*           or line 72 is not reached.
SampleOutcomes ==
    {[raises |-> 65, dist |-> None, sub |-> None, vel |-> None]}
    \cup [raises : {68}, dist : {<<d>> : d \in FailDistValues},
          sub : {None}, vel : {None}]
    \cup [raises : {69, 70, 71}, dist : {<<d>> : d \in FailDistValues},
          sub : {SubPointFound}, vel : {None}]
    \cup [raises : {0}, dist : {<<d>> : d \in DistValues},
          sub : {SubPointFound}, vel : Velocities \cup {None}]
    \cup [raises : {0}, dist : {<<InsideDist>>},
          sub : SubPoints \ {SubPointFound}, vel : Velocities]
    \cup [raises : {0}, dist : {<<NaN>>},
          sub : {SubPointFound}, vel : Velocities]

\* Response bodies of celestrak.org, as lines.
ResponseTexts ==
    { <<"A", "L1", "L2">>,
      <<"", "B", "L1", "L2", "">>,
      <<"A", "x", "x">>,
      <<"B", "", "L2">>,
      <<"A", "L1", "L2", "B", "L1", "L2">>,
      <<"x">> }

\* requests.get: a response, or an exception.
HttpResponses ==
    [status : {HttpOk}, text : ResponseTexts, raised : {FALSE}]
    \cup {[status |-> 404, text |-> <<"x">>, raised |-> FALSE],
          [status |-> 0, text |-> << >>, raised |-> TRUE]}

\* ---------------------------------------------------------- pure helpers

\* str.strip() on a text: leading and trailing blank lines go.
RECURSIVE StripLeft(_)
StripLeft(text) ==
    IF text = << >> THEN << >>
    ELSE IF Head(text) = "" THEN StripLeft(Tail(text)) ELSE text

RECURSIVE StripRight(_)
StripRight(text) ==
    IF text = << >> THEN << >>
    ELSE IF text[Len(text)] = "" THEN StripRight(SubSeq(text, 1, Len(text) - 1))
    ELSE text

Strip(text) == StripRight(StripLeft(text))

IsNonEmptyLine(line) == line # ""

\* Lines 11-18.  The except branch and the fall-through both give None.
fetch_tle_by_satname(r) ==
    IF r.raised THEN None
    ELSE IF r.status = HttpOk /\ Len(Strip(r.text)) >= MinTleLines
         THEN Strip(r.text)
         ELSE None

\* Lines 20-27.
fetch_tle_by_catnr(r) ==
    IF r.raised THEN None
    ELSE IF r.status = HttpOk /\ Len(Strip(r.text)) >= MinTleLines
         THEN Strip(r.text)
         ELSE None

\* ------------------------------------------------- Python's float numbers

\* A float is an IEEE 754 binary64 number.  A model number v (units of 1e-4)
\* stands for the float nearest to v / 10000, as the literal does in
\* Python.  The arithmetic below is exact: a natural number of any size is
\* the sequence of its digits in base LimbBase, lowest digit first, << >>
\* being 0; a float is << m, e >>, the number m * 2^e, with m of exactly
\* MantissaBits bits, or << << >>, 0 >> for 0.0.
LimbBits == 15
LimbBase == 32768
MantissaBits == 53
DecimalScale == 10000

RECURSIVE Pow2(_)
Pow2(n) == IF n = 0 THEN 1 ELSE 2 * Pow2(n - 1)

RECURSIVE IntBitLen(_)
IntBitLen(n) == IF n = 0 THEN 0 ELSE 1 + IntBitLen(n \div 2)

Abs(n) == IF n < 0 THEN -n ELSE n

RECURSIVE BigFromInt(_)
BigFromInt(n) ==
    IF n = 0 THEN << >>
    ELSE <<n % LimbBase>> \o BigFromInt(n \div LimbBase)

RECURSIVE BigToInt(_)
BigToInt(x) ==
    IF x = << >> THEN 0 ELSE Head(x) + LimbBase * BigToInt(Tail(x))

RECURSIVE BigNorm(_)
BigNorm(x) ==
    IF x = << >> THEN << >>
    ELSE IF x[Len(x)] = 0 THEN BigNorm(SubSeq(x, 1, Len(x) - 1))
    ELSE x

RECURSIVE BigAddC(_, _, _)
BigAddC(x, y, c) ==
    IF x = << >> /\ y = << >>
    THEN IF c = 0 THEN << >> ELSE <<c>>
    ELSE LET s == (IF x = << >> THEN 0 ELSE Head(x))
                  + (IF y = << >> THEN 0 ELSE Head(y)) + c
         IN <<s % LimbBase>>
            \o BigAddC(IF x = << >> THEN << >> ELSE Tail(x),
                       IF y = << >> THEN << >> ELSE Tail(y),
                       s \div LimbBase)

BigAdd(x, y) == BigAddC(x, y, 0)

RECURSIVE BigMulSmallC(_, _, _)
BigMulSmallC(x, d, c) ==
    IF x = << >>
    THEN IF c = 0 THEN << >> ELSE <<c>>
    ELSE LET p == Head(x) * d + c
         IN <<p % LimbBase>> \o BigMulSmallC(Tail(x), d, p \div LimbBase)

\* x * d for a digit d.
BigMulSmall(x, d) == IF d = 0 THEN << >> ELSE BigMulSmallC(x, d, 0)

\* x * LimbBase^n.
BigShiftLimbs(x, n) == IF x = << >> THEN << >> ELSE [j \in 1..n |-> 0] \o x

RECURSIVE BigMul(_, _)
BigMul(x, y) ==
    IF y = << >> THEN << >>
    ELSE BigAdd(BigMulSmall(x, Head(y)),
                BigShiftLimbs(BigMul(x, Tail(y)), 1))

RECURSIVE BigLeFrom(_, _, _)
BigLeFrom(x, y, j) ==
    IF j = 0 THEN TRUE
    ELSE IF x[j] # y[j] THEN x[j] < y[j]
    ELSE BigLeFrom(x, y, j - 1)

BigLe(x, y) ==
    IF Len(x) # Len(y) THEN Len(x) < Len(y) ELSE BigLeFrom(x, y, Len(x))

\* Quotient and remainder of x by d, 0 < d < LimbBase.
RECURSIVE BigDivRem(_, _)
BigDivRem(x, d) ==
    IF x = << >> THEN [q |-> << >>, r |-> 0]
    ELSE LET hi == BigDivRem(Tail(x), d)
             cur == hi.r * LimbBase + Head(x)
         IN [q |-> BigNorm(<<cur \div d>> \o hi.q), r |-> cur % d]

\* x * 2^n.
BigShl(x, n) ==
    BigShiftLimbs(BigMulSmall(x, Pow2(n % LimbBits)), n \div LimbBits)

\* x \div 2^n.
BigShr(x, n) ==
    IF n \div LimbBits >= Len(x) THEN << >>
    ELSE BigDivRem(SubSeq(x, n \div LimbBits + 1, Len(x)),
                   Pow2(n % LimbBits)).q

BigBitLen(x) ==
    IF x = << >> THEN 0
    ELSE (Len(x) - 1) * LimbBits + IntBitLen(x[Len(x)])

BigOdd(x) == x # << >> /\ Head(x) % 2 = 1

RECURSIVE BigIsqrtFrom(_, _, _)
BigIsqrtFrom(n, root, i) ==
    IF i < 0 THEN root
    ELSE LET c == BigAdd(root, BigShl(<<1>>, i))
         IN IF BigLe(BigMul(c, c), n)
            THEN BigIsqrtFrom(n, c, i - 1)
            ELSE BigIsqrtFrom(n, root, i - 1)

\* The largest r with r * r <= n.
BigIsqrt(n) == BigIsqrtFrom(n, << >>, (BigBitLen(n) + 1) \div 2)

\* The float nearest to n * 2^e, ties to the even mantissa.  The caller may
\* use the lowest bit of an n of more than MantissaBits + 1 bits to stand for
\* a remainder below it.
FloatRound(n, e) ==
    IF n = << >> THEN << << >>, 0 >>
    ELSE LET sh == BigBitLen(n) - MantissaBits IN
         IF sh <= 0 THEN <<BigShl(n, -sh), e + sh>>
         ELSE LET q1 == BigShr(n, sh - 1)
                  q == BigShr(q1, 1)
                  sticky == BigShl(q1, sh - 1) # n
                  m == IF BigOdd(q1) /\ (sticky \/ BigOdd(q))
                       THEN BigAdd(q, <<1>>) ELSE q
              IN IF BigBitLen(m) > MantissaBits
                 THEN <<BigShr(m, 1), e + sh + 1>>
                 ELSE <<m, e + sh>>

\* The float the decimal a / 10000 denotes, a >= 0.
FloatFromDec(a) ==
    LET d == BigDivRem(BigShl(BigFromInt(a), 70), DecimalScale)
    IN FloatRound(BigAdd(BigShl(d.q, 1), IF d.r = 0 THEN << >> ELSE <<1>>),
                  -71)

\* The floats next to n * 2^e: the largest one not above it and the
\* smallest one not below it, which are one float when n * 2^e is a float.
\* The caller may use the lowest bit of an n of more than MantissaBits + 1
\* bits to stand for a remainder below it.
FloatNeighbours(n, e) ==
    IF n = << >> THEN {<< << >>, 0 >>}
    ELSE LET sh == BigBitLen(n) - MantissaBits IN
         IF sh <= 0 THEN {<<BigShl(n, -sh), e + sh>>}
         ELSE LET q == BigShr(n, sh)
                  up == BigAdd(q, <<1>>)
              IN IF BigShl(q, sh) = n THEN {<<q, e + sh>>}
                 ELSE {<<q, e + sh>>,
                       IF BigBitLen(up) > MantissaBits
                       THEN <<BigShr(up, 1), e + sh + 1>>
                       ELSE <<up, e + sh>>}

\* x ** 2.  Python hands ** to the C library's pow, which promises less
\* than one unit in the last place of error and not the nearest float:
\* which of the two floats next to the exact square it returns depends on
\* the library and on the processor.
FloatPowTwo(x) == FloatNeighbours(BigMul(x[1], x[1]), 2 * x[2])

\* x + y.
FloatAdd(x, y) ==
    IF x[1] = << >> THEN y
    ELSE IF y[1] = << >> THEN x
    ELSE LET e == IF x[2] <= y[2] THEN x[2] ELSE y[2]
         IN FloatRound(BigAdd(BigShl(x[1], x[2] - e), BigShl(y[1], y[2] - e)),
                       e)

\* x ** 0.5, by the same pow: one of the two floats next to the exact root.
FloatPowHalf(x) ==
    IF x[1] = << >> THEN {x}
    ELSE LET k == IF (x[2] - 58) % 2 = 0 THEN 58 ELSE 59
             n == BigShl(x[1], k)
             root == BigIsqrt(n)
         IN FloatNeighbours(BigAdd(BigShl(root, 1),
                                   IF BigMul(root, root) = n THEN << >>
                                                             ELSE <<1>>),
                            (x[2] - k) \div 2 - 1)

\* round(x, 3) of a float x >= 0, in units of 1e-3: the nearest multiple of
\* 0.001 to the exact value of x, ties to the even one.
FloatRound3(x) ==
    LET n == BigMulSmall(x[1], 2000)
        q2 == IF x[2] >= 0 THEN BigShl(n, x[2]) ELSE BigShr(n, -x[2])
        sticky == x[2] < 0 /\ BigShl(q2, -x[2]) # n
        r == BigShr(q2, 1)
    IN BigToInt(IF BigOdd(q2) /\ (sticky \/ BigOdd(r))
                THEN BigAdd(r, <<1>>) ELSE r)

\* round(val, 3) of the float that v stands for: the result is in units of
\* 1e-3.  Unless v ends in 5 the float is nowhere near the middle of two
\* multiples of 0.001 and the nearest one is taken; when v ends in 5 the
\* float lies on one side of the middle, or on it, and Python rounds the
\* float's exact value.
Round3(v) ==
    LET a == Abs(v)
        r == IF a % 10 = 5 THEN FloatRound3(FloatFromDec(a))
             ELSE (a + 5) \div 10
    IN IF v < 0 THEN -r ELSE r

\* Lines 40-44: a number is rounded, anything else gives "".
round_val(val) == IF val = None THEN Blank ELSE <<Round3(val[1])>>

\* Lines 29-35, after geolocator.geocode returned.
geocode_address(location) ==
    IF location # None
    THEN <<Round3(location[1]), Round3(location[2])>>
    ELSE None

\* Integer square root by bisection, for n < 2^31.
RECURSIVE SqrtIn(_, _, _)
SqrtIn(n, lo, hi) ==
    IF lo >= hi THEN lo
    ELSE LET mid == (lo + hi + 1) \div 2
         IN IF mid * mid <= n THEN SqrtIn(n, mid, hi) ELSE SqrtIn(n, lo, mid - 1)

Sqrt(n) == SqrtIn(n, 0, 46340)

\* Line 49: the values round((v[0]**2 + v[1]**2)**0.5, 3) may take in float
\* arithmetic, one for every way pow may round the two squares and the
\* root; a and b are the sizes of the components.
SpeedInFloats(a, b) ==
    UNION {UNION {{FloatRound3(r) : r \in FloatPowHalf(FloatAdd(p, q))} :
                  q \in FloatPowTwo(FloatFromDec(b))} :
           p \in FloatPowTwo(FloatFromDec(a))}

\* Lines 46-51: the set of the values the call may return, one value
\* unless the exact root lies in the middle of two multiples of 0.001.
\* For components below LimbBase the sum of the squares is taken in
\* integers: unless the root is a whole number ending in 5 it is nowhere
\* near such a middle, and every float result rounds as the exact root does.
get_horizontal_velocity(vel) ==
    IF vel = None THEN {Blank}
    ELSE LET a == Abs(vel[1])
             b == Abs(vel[2])
         IN IF a < LimbBase /\ b < LimbBase
            THEN LET n == a * a + b * b
                     c == Sqrt(n)
                 IN IF c * c = n /\ c % 10 = 5
                    THEN {<<v>> : v \in SpeedInFloats(a, b)}
                    ELSE {<<(c + 5) \div 10>>}
            ELSE {<<v>> : v \in SpeedInFloats(a, b)}

\* t.utc_datetime().astimezone(kst), line 73.
ToKst(t) == t + KstOffsetSeconds

\* Lines 37-38: "%Y-%m-%d %H:%M:%S" as << day, hour, minute, second >>.
format_time(dt) ==
    << dt \div SecondsPerDay,
       (dt % SecondsPerDay) \div SecondsPerHour,
       (dt % SecondsPerHour) \div SecondsPerMinute,
       dt % SecondsPerMinute >>

\* A slip of line 58: the first instant is one minute after now.
TimesFromNext(now, n) == [j \in 1..n |-> now + StepSeconds * j]

\* Line 58: the sample instants, one per minute from now.
Times(now, n) == [j \in 1..n |-> now + StepSeconds * (j - 1)]

\* Line 169: the stripped, non-empty lines of a stored text.
NonEmptyLines(tle_text) == SelectSeq(tle_text, IsNonEmptyLine)

\* Line 54: EarthSatellite(line1, line2, name) accepts the two element lines.
ElementsAccepted(line1, line2) == line1 = "L1" /\ line2 = "L2"

\* ------------------------------------------------------- detect_pass_pairs

\* Lines 65-69 raise nothing: the local lat is rebound.
LatitudeRead(s) == s.raises = 0 \/ s.raises > 69

\* Lines 65-70 raise nothing: the local lon is rebound.
LongitudeRead(s) == s.raises = 0 \/ s.raises > 70

\* Lines 64-73: the statements before the if raise nothing.
SampleEvaluated(s) == s.raises = 0

\* x <= y of two floats: false when one of them is not a number.
FloatLe(x, y) == x # NaN /\ y # NaN /\ x <= y

\* x > y of two floats: false when one of them is not a number.
FloatGt(x, y) == x # NaN /\ y # NaN /\ x > y

\* A slip of line 75: the comparison is strict.
IsEntryStrict(was_inside, dist_km, radius) ==
    ~was_inside /\ FloatLe(dist_km, radius) /\ dist_km # radius

\* A slip of line 75: the state is not consulted.
IsEntryAnyState(was_inside, dist_km, radius) == FloatLe(dist_km, radius)

\* Line 75.
IsEntry(was_inside, dist_km, radius) == ~was_inside /\ FloatLe(dist_km, radius)

\* A slip of line 86: the state is not consulted.
IsExitAnyState(was_inside, dist_km, radius) == FloatGt(dist_km, radius)

\* A slip of line 86: a sample on the radius counts as outside.
IsExitOnRadius(was_inside, dist_km, radius) ==
    was_inside /\ (FloatGt(dist_km, radius) \/ dist_km = radius)

\* Line 86.
IsExit(was_inside, dist_km, radius) == was_inside /\ FloatGt(dist_km, radius)

\* Lines 77-85; vel is what line 72 got.
EntryEvent(sat_name, s, t, vel) ==
    [name |-> sat_name,
     time |-> format_time(ToKst(t)),
     lat |-> round_val(s.sub.lat),
     lon |-> round_val(s.sub.lon),
     alt |-> round_val(s.sub.alt),
     vel |-> vel,
     instant |-> t]

\* Lines 88-96; vel is what line 72 got.
ExitEvent(sat_name, s, t, vel) ==
    [name |-> sat_name,
     time |-> format_time(ToKst(t)),
     lat |-> round_val(s.sub.lat),
     lon |-> round_val(s.sub.lon),
     alt |-> round_val(s.sub.alt),
     vel |-> vel,
     instant |-> t]

\* A slip of line 102: the difference is taken in minutes.
DurationMinutes(ent, ext) == (ext.instant - ent.instant) \div SecondsPerMinute

\* Line 102.
DurationSec(ent, ext) == ext.instant - ent.instant

\* Lines 103-116.
PassRecord(ent, ext) ==
    [name |-> ent.name,
     start_time |-> ent.time,
     start_lat |-> ent.lat,
     start_lon |-> ent.lon,
     start_alt |-> ent.alt,
     start_vel |-> ent.vel,
     stop_time |-> ext.time,
     stop_lat |-> ext.lat,
     stop_lon |-> ext.lon,
     stop_alt |-> ext.alt,
     stop_vel |-> ext.vel,
     duration |-> DurationSec(ent, ext)]

Min(a, b) == IF a <= b THEN a ELSE b

\* Line 101: zip stops at the shorter list.
ZipLen(ents, exts) == Min(Len(ents), Len(exts))

\* A slip of lines 100-118: every Entry is closed by the latest Exit.
ResultsLatestExit(ents, exts) ==
    [j \in 1..ZipLen(ents, exts) |-> PassRecord(ents[j], exts[Len(exts)])]

\* A slip of lines 100-118: an Entry without an Exit is reported as a
\* record that stops where it starts.
ResultsWithOpen(ents, exts) ==
    [j \in 1..ZipLen(ents, exts) |-> PassRecord(ents[j], exts[j])]
    \o (IF Len(ents) > Len(exts)
        THEN <<PassRecord(ents[Len(ents)], ents[Len(ents)])>>
        ELSE << >>)

\* Lines 100-118.
Results(ents, exts) ==
    [j \in 1..ZipLen(ents, exts) |-> PassRecord(ents[j], exts[j])]

\* ------------------------------------------------------------------ state

VARIABLES
    pc,          \* where the script is
    lat, lon,    \* module-level lat, lon (line 126)
    tle_list,    \* st.session_state.tle_list
    msg,         \* the last st.success / st.error shown
    warnings,    \* number of st.warning calls of the current analysis
    radius_km,   \* slider value (line 160)
    hours,       \* selectbox value (line 161)
    clock,       \* the wall clock
    k,           \* position of the for loop of line 168
    all_rows,    \* line 167
    df,          \* line 177
    name,        \* detect_pass_pairs: parameter name
    lat_local,   \* detect_pass_pairs: local lat
    lon_local,   \* detect_pass_pairs: local lon
    observer,    \* line 55
    now,         \* line 57
    times,       \* line 58
    ti,          \* position of the for loop of line 63
    sample,      \* what lines 65-72 computed in the last iteration
    inside, entries, exits   \* line 61

frame == <<name, lat_local, lon_local, observer, now, times, ti, sample,
           inside, entries, exits>>
session == <<tle_list, radius_km, hours>>
vars == <<pc, lat, lon, tle_list, msg, warnings, radius_km, hours, clock, k,
          all_rows, df, name, lat_local, lon_local, observer, now, times, ti,
          sample, inside, entries, exits>>

\* No call of detect_pass_pairs is active: its locals do not exist.
NoFrame ==
    /\ name = "" /\ lat_local = None /\ lon_local = None
    /\ observer = None /\ now = 0 /\ times = << >> /\ ti = 0
    /\ sample = None
    /\ inside = FALSE /\ entries = << >> /\ exits = << >>

Init ==
    /\ pc = "start"
    /\ lat = None /\ lon = None
    /\ tle_list = << >>
    /\ msg = "none"
    /\ warnings = 0
    /\ radius_km \in RadiusOptions
    /\ hours \in HourChoices
    /\ clock \in StartClocks
    /\ k = 0
    /\ all_rows = << >>
    /\ df = None
    /\ NoFrame

\* A slip of lines 130-132: st.stop() is missing, the script goes on without
\* a location.
GeocodeNoStop(answer) ==
    /\ pc = "start"
    /\ IF answer.raised
       THEN /\ lat' = None /\ lon' = None
            /\ msg' = "uncaught exception"
            /\ pc' = "crashed"
       ELSE LET where == geocode_address(answer.location) IN
            IF where = None
            THEN /\ lat' = None /\ lon' = None
                 /\ msg' = "address not found"
                 /\ pc' = "ready"
            ELSE /\ lat' = <<where[1]>> /\ lon' = <<where[2]>>
                 /\ msg' = "location found"
                 /\ pc' = "ready"
    /\ UNCHANGED <<tle_list, warnings, radius_km, hours, clock, k, all_rows, df, frame>>

\* Lines 125-132: every script run geocodes the address first.  Neither
\* geocode_address nor its call has a try: when the geocoder raises, the
\* script run dies.
Geocode(answer) ==
    /\ pc = "start"
    /\ IF answer.raised
       THEN /\ lat' = None /\ lon' = None
            /\ msg' = "uncaught exception"
            /\ pc' = "crashed"
       ELSE LET where == geocode_address(answer.location) IN
            IF where = None
            THEN /\ lat' = None /\ lon' = None
                 /\ msg' = "address not found"
                 /\ pc' = "stopped"
            ELSE /\ lat' = <<where[1]>> /\ lon' = <<where[2]>>
                 /\ msg' = "location found"
                 /\ pc' = "ready"
    /\ UNCHANGED <<tle_list, warnings, radius_km, hours, clock, k, all_rows, df, frame>>

\* The user touches the page again after a script run has ended (no button
\* pressed, st.stop(), the table shown, or an uncaught exception): a new
\* script run.  Only st.session_state survives; the widgets of lines 160-161
\* and the wall clock are read anew.
Rerun ==
    /\ pc \in {"ready", "stopped", "done", "crashed"}
    /\ pc' = "start"
    /\ lat' = None /\ lon' = None
    /\ msg' = "none"
    /\ warnings' = 0
    /\ k' = 0
    /\ all_rows' = << >>
    /\ df' = None
    /\ radius_km' \in RadiusOptions
    /\ hours' \in HourChoices
    /\ clock' \in StartClocks
    /\ UNCHANGED <<tle_list, frame>>

\* A slip of line 148: the new entry is put at the front of the list.
AddTleInFront(by_name, r) ==
    /\ pc = "ready"
    /\ Len(tle_list) < MaxBatch
    /\ LET tle_data == IF by_name THEN fetch_tle_by_satname(r)
                                 ELSE fetch_tle_by_catnr(r) IN
       IF tle_data # None
       THEN /\ tle_list' = <<tle_data>> \o tle_list
            /\ msg' = "tle added"
       ELSE /\ tle_list' = tle_list
            /\ msg' = "tle not found"
    /\ pc' = "start"
    /\ UNCHANGED <<lat, lon, warnings, radius_km, hours, clock, k, all_rows, df, frame>>

\* Lines 142-152: the add button, by satellite name or by NORAD number.
AddTle(by_name, r) ==
    /\ pc = "ready"
    /\ Len(tle_list) < MaxBatch
    /\ LET tle_data == IF by_name THEN fetch_tle_by_satname(r)
                                 ELSE fetch_tle_by_catnr(r) IN
       IF tle_data # None
       THEN /\ tle_list' = Append(tle_list, tle_data)
            /\ msg' = "tle added"
       ELSE /\ tle_list' = tle_list
            /\ msg' = "tle not found"
    /\ pc' = "start"
    /\ UNCHANGED <<lat, lon, warnings, radius_km, hours, clock, k, all_rows, df, frame>>

\* Lines 163-167: the analysis button.
StartAnalysis ==
    /\ pc = "ready"
    /\ IF tle_list = << >>
       THEN /\ msg' = "no tle registered"
            /\ pc' = "start"
            /\ UNCHANGED <<k, all_rows, warnings>>
       ELSE /\ all_rows' = << >>
            /\ warnings' = 0
            /\ k' = 1
            /\ pc' = "loop"
            /\ msg' = msg
    /\ UNCHANGED <<lat, lon, tle_list, radius_km, hours, clock, df, frame>>

\* A slip of lines 170-172: break instead of continue.
SkipMalformedBreak ==
    /\ pc = "loop"
    /\ k <= Len(tle_list)
    /\ Len(NonEmptyLines(tle_list[k])) # TleTripleLen
    /\ warnings' = warnings + 1
    /\ k' = Len(tle_list) + 1
    /\ UNCHANGED <<pc, lat, lon, tle_list, msg, radius_km, hours, clock, all_rows, df, frame>>

\* Lines 168-172: an entry without exactly three non-empty lines.
SkipMalformed ==
    /\ pc = "loop"
    /\ k <= Len(tle_list)
    /\ Len(NonEmptyLines(tle_list[k])) # TleTripleLen
    /\ warnings' = warnings + 1
    /\ k' = k + 1
    /\ UNCHANGED <<pc, lat, lon, tle_list, msg, radius_km, hours, clock, all_rows, df, frame>>

\* A slip of line 61: inside starts True.
CallDetectInside ==
    /\ pc = "loop"
    /\ k <= Len(tle_list)
    /\ LET lines == NonEmptyLines(tle_list[k]) IN
       /\ Len(lines) = TleTripleLen
       /\ IF ElementsAccepted(lines[2], lines[3])
          THEN /\ name' = lines[1]
               /\ lat_local' = lat /\ lon_local' = lon
               /\ observer' = <<lat[1], lon[1], ObserverElevation>>
               /\ now' = clock
               /\ times' = Times(clock, GridLen)
               /\ ti' = 1
               /\ sample' = None
               /\ inside' = TRUE
               /\ entries' = << >> /\ exits' = << >>
               /\ pc' = "scan"
               /\ msg' = msg
          ELSE /\ pc' = "crashed"
               /\ msg' = "uncaught exception"
               /\ UNCHANGED frame
    /\ UNCHANGED <<lat, lon, tle_list, warnings, radius_km, hours, clock, k, all_rows, df>>

\* Lines 173-174 and 54-61: the call, up to the sample loop.
CallDetect ==
    /\ pc = "loop"
    /\ k <= Len(tle_list)
    /\ LET lines == NonEmptyLines(tle_list[k]) IN
       /\ Len(lines) = TleTripleLen
       /\ IF ElementsAccepted(lines[2], lines[3])
          THEN /\ name' = lines[1]
               /\ lat_local' = lat /\ lon_local' = lon
               /\ observer' = <<lat[1], lon[1], ObserverElevation>>
               /\ now' = clock
               /\ times' = Times(clock, GridLen)
               /\ ti' = 1
               /\ sample' = None
               /\ inside' = FALSE /\ entries' = << >> /\ exits' = << >>
               /\ pc' = "scan"
               /\ msg' = msg
          ELSE \* EarthSatellite raises outside any try: the run dies.
               /\ pc' = "crashed"
               /\ msg' = "uncaught exception"
               /\ UNCHANGED frame
    /\ UNCHANGED <<lat, lon, tle_list, warnings, radius_km, hours, clock, k, all_rows, df>>

\* A slip of lines 97-98: break instead of continue.
ScanSampleBreak(s) ==
    /\ pc = "scan"
    /\ ti <= Len(times)
    /\ lat_local' = IF LatitudeRead(s) THEN round_val(s.sub.lat) ELSE lat_local
    /\ lon_local' = IF LongitudeRead(s) THEN round_val(s.sub.lon) ELSE lon_local
    /\ LET t == times[ti] IN
       IF ~SampleEvaluated(s)
       THEN /\ ti' = Len(times) + 1
            /\ UNCHANGED <<inside, entries, exits>>
       ELSE /\ ti' = ti + 1
            /\ \E vel \in get_horizontal_velocity(s.vel) :
               IF IsEntry(inside, s.dist[1], radius_km)
               THEN /\ inside' = TRUE
                    /\ entries' = Append(entries, EntryEvent(name, s, t, vel))
                    /\ exits' = exits
               ELSE IF IsExit(inside, s.dist[1], radius_km)
               THEN /\ inside' = FALSE
                    /\ exits' = Append(exits, ExitEvent(name, s, t, vel))
                    /\ entries' = entries
               ELSE UNCHANGED <<inside, entries, exits>>
    /\ sample' = s
    /\ UNCHANGED <<pc, lat, lon, tle_list, msg, warnings, radius_km, hours, clock, k,
                   all_rows, df, name, observer, now, times>>

\* A slip of lines 69-70: lat and lon are declared global, so the sub-point
\* overwrites the geocoded location.
ScanSampleGlobal(s) ==
    /\ pc = "scan"
    /\ ti <= Len(times)
    /\ lat' = IF LatitudeRead(s) THEN round_val(s.sub.lat) ELSE lat
    /\ lon' = IF LongitudeRead(s) THEN round_val(s.sub.lon) ELSE lon
    /\ LET t == times[ti] IN
       IF ~SampleEvaluated(s)
       THEN UNCHANGED <<inside, entries, exits>>
       ELSE \E vel \in get_horizontal_velocity(s.vel) :
            IF IsEntry(inside, s.dist[1], radius_km)
            THEN /\ inside' = TRUE
                 /\ entries' = Append(entries, EntryEvent(name, s, t, vel))
                 /\ exits' = exits
            ELSE IF IsExit(inside, s.dist[1], radius_km)
            THEN /\ inside' = FALSE
                 /\ exits' = Append(exits, ExitEvent(name, s, t, vel))
                 /\ entries' = entries
            ELSE UNCHANGED <<inside, entries, exits>>
    /\ ti' = ti + 1
    /\ sample' = s
    /\ UNCHANGED <<pc, lat_local, lon_local, tle_list, msg, warnings, radius_km,
                   hours, clock, k, all_rows, df, name, observer, now, times>>

\* Lines 63-98: one iteration of the sample loop.  The locals lat and lon
\* are rebound as soon as lines 69 and 70 have run, whether or not a later
\* line of the try raises.  A slant range that is not a number passes
\* neither test: the sample is evaluated and changes nothing else.
ScanSample(s) ==
    /\ pc = "scan"
    /\ ti <= Len(times)
    /\ lat_local' = IF LatitudeRead(s) THEN round_val(s.sub.lat) ELSE lat_local
    /\ lon_local' = IF LongitudeRead(s) THEN round_val(s.sub.lon) ELSE lon_local
    /\ LET t == times[ti] IN
       IF ~SampleEvaluated(s)
       THEN UNCHANGED <<inside, entries, exits>>
       ELSE \E vel \in get_horizontal_velocity(s.vel) :
            IF IsEntry(inside, s.dist[1], radius_km)
            THEN /\ inside' = TRUE
                 /\ entries' = Append(entries, EntryEvent(name, s, t, vel))
                 /\ exits' = exits
            ELSE IF IsExit(inside, s.dist[1], radius_km)
            THEN /\ inside' = FALSE
                 /\ exits' = Append(exits, ExitEvent(name, s, t, vel))
                 /\ entries' = entries
            ELSE UNCHANGED <<inside, entries, exits>>
    /\ ti' = ti + 1
    /\ sample' = s
    /\ UNCHANGED <<pc, lat, lon, tle_list, msg, warnings, radius_km, hours, clock, k,
                   all_rows, df, name, observer, now, times>>

\* A slip of line 175: the rows of a satellite are put in front of the rows
\* collected so far.
ScanReturnPrepend(elapsed) ==
    /\ pc = "scan"
    /\ ti > Len(times)
    /\ all_rows' = Results(entries, exits) \o all_rows
    /\ k' = k + 1
    /\ clock' = clock + elapsed
    /\ pc' = "loop"
    /\ name' = "" /\ lat_local' = None /\ lon_local' = None
    /\ observer' = None /\ now' = 0 /\ times' = << >> /\ ti' = 0
    /\ sample' = None
    /\ inside' = FALSE /\ entries' = << >> /\ exits' = << >>
    /\ UNCHANGED <<lat, lon, tle_list, msg, warnings, radius_km, hours, df>>

\* Lines 100-118 and 175: pairing, return (the locals die with the call),
\* all_rows.extend(rows).
ScanReturn(elapsed) ==
    /\ pc = "scan"
    /\ ti > Len(times)
    /\ all_rows' = all_rows \o Results(entries, exits)
    /\ k' = k + 1
    /\ clock' = clock + elapsed
    /\ pc' = "loop"
    /\ name' = "" /\ lat_local' = None /\ lon_local' = None
    /\ observer' = None /\ now' = 0 /\ times' = << >> /\ ti' = 0
    /\ sample' = None
    /\ inside' = FALSE /\ entries' = << >> /\ exits' = << >>
    /\ UNCHANGED <<lat, lon, tle_list, msg, warnings, radius_km, hours, df>>

\* A slip of lines 176-189: an analysis without any record is reported as
\* an error and no table is shown.
ShowTableNoEmpty ==
    /\ pc = "loop"
    /\ k > Len(tle_list)
    /\ IF all_rows = << >>
       THEN /\ df' = df
            /\ msg' = "no pass found"
       ELSE /\ df' = [columns |-> Columns, rows |-> all_rows]
            /\ msg' = "analysis complete"
    /\ pc' = "done"
    /\ UNCHANGED <<lat, lon, tle_list, warnings, radius_km, hours, clock, k, all_rows, frame>>

\* Lines 177-189: the table and the success message.
ShowTable ==
    /\ pc = "loop"
    /\ k > Len(tle_list)
    /\ df' = [columns |-> Columns, rows |-> all_rows]
    /\ msg' = "analysis complete"
    /\ pc' = "done"
    /\ UNCHANGED <<lat, lon, tle_list, warnings, radius_km, hours, clock, k, all_rows, frame>>

Next ==
    \/ \E answer \in GeoAnswers : Geocode(answer)
    \/ \E by_name \in BOOLEAN, r \in HttpResponses : AddTle(by_name, r)
    \/ Rerun
    \/ StartAnalysis
    \/ SkipMalformed
    \/ CallDetect
    \/ \E s \in SampleOutcomes : ScanSample(s)
    \/ \E elapsed \in ElapsedSeconds : ScanReturn(elapsed)
    \/ ShowTable

Spec == Init /\ [][Next]_vars

\* ------------------------------------------------------------------ claims

\* One iteration of the sample loop is being taken.
SampleStep == pc = "scan" /\ pc' = "scan" /\ ti' = ti + 1

\* detect_pass_pairs returns.
ReturnStep == pc = "scan" /\ pc' = "loop"

\* The rows the returning call adds to all_rows.
NewRows == SubSeq(all_rows', Len(all_rows) + 1, Len(all_rows'))

IsPrefix(a, b) == Len(a) <= Len(b) /\ SubSeq(b, 1, Len(a)) = a

\* The sample was evaluated and gave a slant range that is a number.
Usable(s) == SampleEvaluated(s) /\ s.dist[1] # NaN

InRange(s) == FloatLe(s.dist[1], radius_km)

\* C1: the events of a scan strictly alternate, starting with an Entry: an
\* iteration emits at most one event; an Entry only when none is pending
\* (as many Exits as Entries so far), an Exit only when an Entry is pending
\* (one more Entry than Exits); and two consecutive evaluated samples on the
\* same side of the radius emit nothing at the second.
C1_Alternation ==
    [][SampleStep =>
        /\ \/ inside' = inside /\ entries' = entries /\ exits' = exits
           \/ /\ ~inside /\ inside'
              /\ Len(entries) = Len(exits)
              /\ Len(entries') = Len(entries) + 1 /\ IsPrefix(entries, entries')
              /\ exits' = exits
           \/ /\ inside /\ ~inside'
              /\ Len(entries) = Len(exits) + 1
              /\ Len(exits') = Len(exits) + 1 /\ IsPrefix(exits, exits')
              /\ entries' = entries
        /\ (/\ sample # None /\ Usable(sample)
            /\ Usable(sample')
            /\ InRange(sample) = InRange(sample'))
           => entries' = entries /\ exits' = exits
    ]_vars

\* Entry, Exit, Entry, Exit have been emitted in one scan.
C1_Witness == pc = "scan" /\ Len(entries) = 2 /\ Len(exits) = 2

\* C2: an evaluated sample whose slant range equals radius_km counts as
\* inside: from outside it emits an Entry at that instant and sets inside;
\* from inside it emits no Exit and inside stays true.
C2_BoundaryInside ==
    [][(/\ SampleStep
        /\ SampleEvaluated(sample')
        /\ sample'.dist[1] = radius_km)
       => /\ inside'
          /\ exits' = exits
          /\ IF inside
             THEN entries' = entries
             ELSE /\ Len(entries') = Len(entries) + 1
                  /\ IsPrefix(entries, entries')
                  /\ entries'[Len(entries')].instant = times[ti]
    ]_vars

\* A sample exactly on the radius was consumed while a pass that began at
\* an earlier sample was open, and the pass is still open.
C2_Witness ==
    /\ pc = "scan" /\ sample # None /\ SampleEvaluated(sample)
    /\ sample.dist[1] = radius_km
    /\ inside /\ Len(entries) = 1 /\ exits = << >>
    /\ entries[1].instant < times[ti - 1]

\* C3: pairing is positional: the j-th record a call returns takes every
\* Start field from the j-th Entry and every Stop field from the j-th Exit.
C3_PositionalPairing ==
    [][ReturnStep =>
        \A j \in 1..Len(NewRows) :
            /\ j <= Len(entries) /\ j <= Len(exits)
            /\ NewRows[j].name = entries[j].name
            /\ NewRows[j].start_time = entries[j].time
            /\ NewRows[j].start_lat = entries[j].lat
            /\ NewRows[j].start_lon = entries[j].lon
            /\ NewRows[j].start_alt = entries[j].alt
            /\ NewRows[j].start_vel = entries[j].vel
            /\ NewRows[j].stop_time = exits[j].time
            /\ NewRows[j].stop_lat = exits[j].lat
            /\ NewRows[j].stop_lon = exits[j].lon
            /\ NewRows[j].stop_alt = exits[j].alt
            /\ NewRows[j].stop_vel = exits[j].vel
    ]_vars

\* The first satellite of the batch has returned two records.
C3_Witness ==
    /\ pc = "loop" /\ k = 2 /\ Len(all_rows) = 2
    /\ all_rows[1].start_time # all_rows[2].start_time

\* C4: a call returns as many records as the smaller of the numbers of
\* Entries and Exits; when the scan ends inside the radius the last Entry
\* gives no record: no returned record starts at its time.
C4_RecordCount ==
    [][ReturnStep =>
        /\ Len(NewRows) = (IF Len(entries) <= Len(exits) THEN Len(entries)
                                                          ELSE Len(exits))
        /\ inside =>
              /\ Len(NewRows) = Len(entries) - 1
              /\ \A j \in 1..Len(NewRows) :
                    NewRows[j].start_time # entries[Len(entries)].time
    ]_vars

\* The grid is exhausted with two Entries and one Exit: the call is about to
\* return with the satellite still inside.
C4_Witness ==
    /\ pc = "scan" /\ ti > Len(times)
    /\ inside /\ Len(entries) = 2 /\ Len(exits) = 1

\* C5: the duration of a record is the exit instant minus the entry instant
\* in seconds, which is 60 times the difference of the two sample indices,
\* and is at least 60.
C5_Duration ==
    [][ReturnStep =>
        \A j \in 1..Len(NewRows) :
            /\ NewRows[j].duration = exits[j].instant - entries[j].instant
            /\ \E a \in 1..Len(times), b \in 1..Len(times) :
                  /\ entries[j].instant = times[a]
                  /\ exits[j].instant = times[b]
                  /\ NewRows[j].duration = 60 * (b - a)
            /\ NewRows[j].duration >= 60
    ]_vars

\* A record whose exit is two samples after its entry is in the table.
C5_Witness ==
    /\ pc = "loop"
    /\ \E j \in 1..Len(all_rows) : all_rows[j].duration = 120

\* C6: an iteration whose evaluation fails, by an exception or by a slant
\* range that is not a number, emits nothing and leaves inside, the Entries
\* and the Exits as they were; the loop goes on to the next sample, and the
\* call returns only after the last sample of the grid.
C6_FailureSkipped ==
    [][/\ (/\ pc = "scan" /\ ti <= Len(times)
           /\ sample' # None /\ ~Usable(sample'))
          => /\ inside' = inside /\ entries' = entries /\ exits' = exits
             /\ pc' = "scan"
             /\ ti' = ti + 1
       /\ (pc = "scan" /\ pc' # "scan")
          => ti = Len(times) + 1 /\ Len(times) = GridLen
    ]_vars

\* The propagator failed at a sample taken while a pass was open, and
\* samples remain.
C6_Witness ==
    /\ pc = "scan" /\ sample # None /\ sample.dist = None
    /\ inside /\ Len(entries) = 1
    /\ ti <= Len(times)

\* The records a satellite can yield when it is the first of the batch.
RowsWhenFirst(nm) ==
    {PassRecord(EntryEvent(nm, s1, t1, v1), ExitEvent(nm, s2, t2, v2)) :
        s1 \in {s \in SampleOutcomes : Usable(s)},
        s2 \in {s \in SampleOutcomes : Usable(s)},
        v1 \in UNION {get_horizontal_velocity(v) : v \in Velocities \cup {None}},
        v2 \in UNION {get_horizontal_velocity(v) : v \in Velocities \cup {None}},
        t1 \in UNION {{Times(c, GridLen)[j] : j \in 1..GridLen} : c \in StartClocks},
        t2 \in UNION {{Times(c, GridLen)[j] : j \in 1..GridLen} : c \in StartClocks}}

\* C7: batch independence: a satellite yields the same records whichever
\* place it has in the batch, so every record of the table is one its
\* satellite yields when it is scanned first.
C7_BatchIndependence ==
    pc = "done" =>
        \A j \in 1..Len(all_rows) : all_rows[j] \in RowsWhenFirst(all_rows[j].name)

\* C8: all satellites of a run are sampled at the same instants: while a
\* satellite is scanned, the start of every record already in the table is
\* one of its sample instants.
C8_SharedNow ==
    pc = "scan" =>
        \A j \in 1..Len(all_rows) :
            \E a \in 1..Len(times) :
                all_rows[j].start_time = format_time(ToKst(times[a]))

Malformed(tle_text) == Len(NonEmptyLines(tle_text)) # 3

NumMalformed(list) == Cardinality({j \in 1..Len(list) : Malformed(list[j])})

\* C9: a batch entry without exactly three non-empty lines adds no row,
\* raises one warning and lets the loop go on with the next entry; an entry
\* with three non-empty lines is handed to detect_pass_pairs; the table is
\* shown only after every entry was visited, with one warning per malformed
\* entry.
C9_MalformedSkipped ==
    [][/\ (pc = "loop" /\ k <= Len(tle_list) /\ Malformed(tle_list[k]))
          => /\ all_rows' = all_rows
             /\ warnings' = warnings + 1
             /\ pc' = "loop" /\ k' = k + 1
       /\ (pc = "loop" /\ k <= Len(tle_list) /\ ~Malformed(tle_list[k]))
          => pc' \in {"scan", "crashed"}
       /\ (pc # "done" /\ pc' = "done")
          => /\ k = Len(tle_list) + 1
             /\ warnings = NumMalformed(tle_list)
             /\ df' = [columns |-> Columns, rows |-> all_rows]
    ]_vars

\* A malformed entry was skipped and the entry after it was analysed and
\* gave a record.
C9_Witness ==
    /\ pc = "done" /\ Len(tle_list) = 2
    /\ Malformed(tle_list[1]) /\ ~Malformed(tle_list[2])
    /\ warnings = 1 /\ Len(all_rows) >= 1

\* C10: no failure inside detect_pass_pairs escapes the analysis handler as
\* an uncaught exception: the walk through the list (k >= 1) never ends in
\* a dead script run.
C10_NoUncaughtException == ~(pc = "crashed" /\ k >= 1)

\* The last event of a list carries, for every derived field, the rounded
\* value when the field was computed and the empty value when it was not.
CarriesFields(events, s) ==
    LET e == events[Len(events)] IN
    /\ e.lat = (IF LatitudeRead(s) THEN round_val(s.sub.lat) ELSE Blank)
    /\ e.lon = (IF LongitudeRead(s) THEN round_val(s.sub.lon) ELSE Blank)
    /\ e.alt = (IF SampleEvaluated(s) THEN round_val(s.sub.alt) ELSE Blank)
    /\ e.vel \in get_horizontal_velocity(s.vel)

\* C11: a sample whose slant range was computed is compared with the radius
\* even when a derived field (sub-point latitude, longitude, altitude,
\* horizontal velocity) could not be computed: from outside and in range it
\* emits an Entry, from inside and out of range an Exit, and the event
\* carries the empty value for the field that failed.
C11_FieldFailureKeepsSample ==
    [][(SampleStep /\ sample'.dist # None) =>
        /\ IsEntry(inside, sample'.dist[1], radius_km)
           => /\ inside'
              /\ Len(entries') = Len(entries) + 1
              /\ CarriesFields(entries', sample')
        /\ IsExit(inside, sample'.dist[1], radius_km)
           => /\ ~inside'
              /\ Len(exits') = Len(exits) + 1
              /\ CarriesFields(exits', sample')
    ]_vars

\* C12: detection never starts without an observer location.  A script run
\* whose geocoding returns no location reports the failure and stops: it
\* fetches no TLE (tle_list is as it was) and analyses nothing, and the only
\* thing that follows is a new script run.  Whenever the analysis walks the
\* list, and whenever detect_pass_pairs is called, lat and lon are numbers,
\* and the call receives them.
C12_LocationBeforeDetection ==
    [][/\ (pc = "start" /\ pc' # "crashed" /\ lat' = None)
          => /\ lon' = None
             /\ pc' = "stopped" /\ msg' = "address not found"
             /\ UNCHANGED <<tle_list, all_rows, k, frame>>
       /\ pc = "stopped"
          => /\ pc' = "start"
             /\ UNCHANGED <<tle_list, all_rows, k, frame>>
       /\ (tle_list' # tle_list \/ pc' \in {"loop", "scan"})
          => lat # None /\ lon # None /\ lat' = lat /\ lon' = lon
       /\ (pc = "loop" /\ pc' = "scan")
          => /\ lat_local' = lat /\ lon_local' = lon
             /\ lat_local' # None /\ lon_local' # None
    ]_vars

\* With satellites registered, a script run failed to geocode and stopped;
\* nothing was analysed.
C12_Witness ==
    /\ pc = "stopped" /\ lat = None /\ lon = None
    /\ msg = "address not found"
    /\ Len(tle_list) = 2 /\ all_rows = << >>

\* The seconds a formatted local time stands for.
TimeSeconds(t) ==
    t[1] * SecondsPerDay + t[2] * SecondsPerHour + t[3] * SecondsPerMinute
    + t[4]

\* The positions of the batch whose entry is analysed under the name nm.
EntriesNamed(nm) ==
    {q \in 1..Len(tle_list) :
        ~Malformed(tle_list[q]) /\ NonEmptyLines(tle_list[q])[1] = nm}

\* C13: the aggregate table is the concatenation of the satellites' records
\* in batch order: of two rows, the earlier one belongs to an earlier batch
\* entry, or to the same entry and then its entry time is the smaller one.
\* The table that is shown holds exactly these rows.
C13_BatchOrder ==
    /\ \A i, j \in 1..Len(all_rows) :
          i < j =>
            \E p \in EntriesNamed(all_rows[i].name),
               q \in EntriesNamed(all_rows[j].name) :
                \/ p < q
                \/ /\ p = q
                   /\ TimeSeconds(all_rows[i].start_time)
                        < TimeSeconds(all_rows[j].start_time)
    /\ pc = "done" => df.rows = all_rows

\* The table shows two records of the first satellite followed by one of
\* the second.
C13_Witness ==
    /\ pc = "done" /\ Len(df.rows) = 3
    /\ df.rows[1].name = df.rows[2].name
    /\ df.rows[2].name # df.rows[3].name

\* -------------------------------------------------- the grid of line 58

\* Wall-clock readings (seconds of UTC) at which a grid may be built.
GridClocks == {53940 + 7 * c : c \in 0..19}

\* Line 58: range(hours * 60).
NumSamples(h) == h * MinutesPerHour

\* A call of detect_pass_pairs is about to build its grid, for any horizon
\* the selectbox offers.
GridInit ==
    /\ pc = "grid"
    /\ lat = None /\ lon = None
    /\ tle_list = << >>
    /\ msg = "none"
    /\ warnings = 0
    /\ radius_km \in RadiusOptions
    /\ hours \in HourOptions
    /\ clock \in GridClocks
    /\ k = 0
    /\ all_rows = << >>
    /\ df = None
    /\ NoFrame

\* Lines 56-58 with the full horizon.
BuildGrid ==
    /\ pc = "grid"
    /\ now' = clock
    /\ times' = Times(clock, NumSamples(hours))
    /\ pc' = "grid_done"
    /\ UNCHANGED <<lat, lon, tle_list, msg, warnings, radius_km, hours, clock, k,
                   all_rows, df, name, lat_local, lon_local, observer, ti,
                   sample, inside, entries, exits>>

GridNext == BuildGrid

GridSpec == GridInit /\ [][GridNext]_vars

\* C14: for a horizon of hours hours the grid has exactly 60 * hours
\* instants; the first is now, every later one is exactly one minute after
\* the one before it, and the last is now + (60 * hours - 1) minutes.
C14_Grid ==
    pc = "grid_done" =>
        /\ Len(times) = MinutesPerHour * hours
        /\ times[1] = now
        /\ \A j \in 1..(Len(times) - 1) :
              times[j + 1] = times[j] + SecondsPerMinute
        /\ times[Len(times)]
             = now + (MinutesPerHour * hours - 1) * SecondsPerMinute

\* The grid of the longest horizon, a week, was built.
C14_Witness ==
    /\ pc = "grid_done" /\ hours = 168
    /\ Len(times) = 10080 /\ times[2] = now + 60

\* C15: an analysis in which no sample is within the radius ends with an
\* empty table and a success message, not an error.  A sample that is not
\* evaluated in range emits no Entry; a call that has no Entry adds no row;
\* and when the list has been walked with no row collected, the table is
\* shown with its column header and zero rows and the message reports the
\* completed analysis.
C15_EmptyResult ==
    [][/\ (SampleStep /\ ~(SampleEvaluated(sample') /\ InRange(sample')))
          => entries' = entries
       /\ (ReturnStep /\ entries = << >>)
          => all_rows' = all_rows
       /\ (pc = "loop" /\ k > Len(tle_list) /\ all_rows = << >>)
          => /\ pc' = "done"
             /\ msg' = "analysis complete"
             /\ df'.columns = Columns
             /\ df'.rows = << >>
    ]_vars

\* Two satellites were scanned over the whole grid, none of them ever came
\* within the radius, and the empty table is shown.
C15_Witness ==
    /\ pc = "done" /\ msg = "analysis complete"
    /\ Len(tle_list) = 2 /\ warnings = 0
    /\ df.columns = Columns /\ df.rows = << >>

\* C16, the samples: a stay within the radius is contiguous.  For every
\* sample evaluated with a slant range that is a number: it leaves the scan inside exactly when its slant range
\* is at most the radius; an Entry is emitted at its instant exactly when
\* the scan was outside and the sample is in range; an Exit is emitted at
\* its instant exactly when the scan was inside and the sample is out of
\* range; so the samples evaluated after an Entry and before its Exit are
\* all in range, and every evaluated sample in range lies in a stay that is
\* open or is closed later.  A satellite in range at the first sample gets
\* its Entry at the first sample.  A sample that is not evaluated, or whose
\* slant range is not a number, changes nothing.
C16_SamplesAreStays ==
    [][SampleStep =>
        IF Usable(sample')
        THEN /\ inside' = InRange(sample')
             /\ IF ~inside /\ InRange(sample')
                THEN /\ entries' = Append(entries, entries'[Len(entries')])
                     /\ entries'[Len(entries')].instant = times[ti]
                ELSE entries' = entries
             /\ IF inside /\ ~InRange(sample')
                THEN /\ exits' = Append(exits, exits'[Len(exits')])
                     /\ exits'[Len(exits')].instant = times[ti]
                     /\ exits'[Len(exits')].instant
                          > entries[Len(entries)].instant
                ELSE exits' = exits
             /\ (ti = 1 /\ InRange(sample'))
                => /\ Len(entries') = 1
                   /\ entries'[1].instant = now
        ELSE /\ inside' = inside
             /\ entries' = entries /\ exits' = exits
    ]_vars

\* C16, the records: the j-th record of a call runs from the j-th Entry to
\* the j-th Exit, which is later than that Entry and earlier than the next
\* Entry.
C16_RecordsAreStays ==
    [][ReturnStep =>
        \A j \in 1..Len(NewRows) :
            /\ NewRows[j].start_time = entries[j].time
            /\ NewRows[j].stop_time = exits[j].time
            /\ entries[j].instant < exits[j].instant
            /\ j < Len(entries) => exits[j].instant < entries[j + 1].instant
    ]_vars

\* C16: every record is a contiguous stay within the radius, from an Entry
\* sample in range to the next Exit sample out of range with only in-range
\* evaluated samples between them, and every evaluated sample in range lies
\* in such a stay or in the open stay at the end of the scan.
C16_ContiguousStay == C16_SamplesAreStays /\ C16_RecordsAreStays

\* A satellite in range at the first sample left at the last one, and the
\* call returned the record of that stay: from the first instant to the
\* last.
C16_Witness ==
    /\ pc = "loop" /\ Len(all_rows) = 1
    /\ all_rows[1].start_time = format_time(ToKst(clock))
    /\ all_rows[1].duration = (GridLen - 1) * StepSeconds

\* The name under which the batch entry at position q is analysed.
SatName(q) == NonEmptyLines(tle_list[q])[1]

\* C17: every call of detect_pass_pairs starts with inside false and with
\* empty Entry and Exit lists, whatever the calls before it left; every
\* event of a scan carries the name of the satellite being scanned; and the
\* records a call returns pair an Entry and an Exit of that satellite and
\* carry its name.
C17_FreshScan ==
    [][/\ (pc = "loop" /\ pc' = "scan")
          => /\ ~inside' /\ entries' = << >> /\ exits' = << >>
             /\ name' = SatName(k)
       /\ SampleStep
          => /\ name' = name
             /\ \A j \in 1..Len(entries') : entries'[j].name = SatName(k)
             /\ \A j \in 1..Len(exits') : exits'[j].name = SatName(k)
       /\ ReturnStep
          => /\ Len(NewRows) <= Len(entries)
             /\ \A j \in 1..Len(NewRows) :
                   /\ NewRows[j].name = SatName(k)
                   /\ \E a \in 1..Len(entries), b \in 1..Len(exits) :
                         /\ entries[a].name = SatName(k)
                         /\ exits[b].name = SatName(k)
                         /\ NewRows[j] = PassRecord(entries[a], exits[b])
    ]_vars

\* The first satellite's call returned one record; the second satellite's
\* scan, started afresh, has emitted an Entry at its own first sample and
\* an Exit, both under its own name.
C17_Witness ==
    /\ pc = "scan" /\ k = 2
    /\ Len(all_rows) = 1 /\ all_rows[1].name = SatName(1)
    /\ all_rows[1].duration = StepSeconds
    /\ SatName(2) # SatName(1)
    /\ Len(entries) = 1 /\ Len(exits) = 1
    /\ entries[1].instant = times[1]
    /\ entries[1].name = SatName(2) /\ exits[1].name = SatName(2)

\* C18: the observer does not change during a run.  While a satellite is
\* scanned the observer is the geocoded (lat, lon) at 38 m; the rebinding
\* of the locals lat and lon to the sub-point leaves the observer and the
\* module-level lat and lon as they are, so every call receives the
\* geocoded coordinates.  Only a new script run, which begins by
\* geocoding, changes the module-level lat and lon.
C18_ObserverFixed ==
    [][/\ pc' = "scan"
          => observer' = <<lat'[1], lon'[1], ObserverElevation>>
       /\ (pc # "start" /\ pc' # "start") => lat' = lat /\ lon' = lon
       /\ SampleStep => observer' = observer
       /\ (pc = "loop" /\ pc' = "scan")
          => lat_local' = lat /\ lon_local' = lon
    ]_vars

\* In the scan of the second satellite the locals lat and lon hold the
\* sub-point, as they did in the first scan, which gave a record; the
\* observer is still the geocoded location.
C18_Witness ==
    /\ pc = "scan" /\ k = 2 /\ Len(all_rows) >= 1
    /\ lat_local # lat /\ lon_local # lon
    /\ lat_local = round_val(SubPointFound.lat)
    /\ observer = <<lat[1], lon[1], ObserverElevation>>

\* C19: the session's TLE list is append-only.  A step either leaves the
\* list as it is or is the add button with a successful fetch, which puts
\* exactly one entry, a text of at least three lines, at the end.  A failed
\* fetch leaves the list as it is, and so does every step of an analysis,
\* the skipping of a malformed entry included.
C19_AppendOnly ==
    [][/\ \/ tle_list' = tle_list
          \/ /\ pc = "ready" /\ pc' = "start"
             /\ msg' = "tle added"
             /\ Len(tle_list') = Len(tle_list) + 1
             /\ IsPrefix(tle_list, tle_list')
             /\ Len(tle_list'[Len(tle_list')]) >= MinTleLines
       /\ (pc = "ready" /\ msg' = "tle not found") => tle_list' = tle_list
       /\ (pc = "ready" /\ pc' = "start" /\ msg' = "tle added")
          => tle_list' # tle_list
       /\ (pc \in {"loop", "scan"} \/ pc' \in {"loop", "done", "crashed"})
          => tle_list' = tle_list
    ]_vars

\* Two fetches succeeded, the first one with a malformed text; the analysis
\* skipped that entry and finished, and both entries are still in the list
\* in the order in which they were added.
C19_Witness ==
    /\ pc = "done" /\ warnings = 1
    /\ tle_list = << <<"A", "L1", "L2", "B", "L1", "L2">>,
                     <<"B", "L1", "L2">> >>

\* C20: at every point of a scan the number of Entries is the number of
\* Exits plus one when the scan is inside and plus nothing when it is
\* outside; so there are never more Exits than Entries and at most one
\* Entry is without its Exit.
C20_Balance ==
    pc = "scan" =>
        /\ Len(entries) = Len(exits) + (IF inside THEN 1 ELSE 0)
        /\ Len(exits) <= Len(entries)
        /\ Len(entries) - Len(exits) <= 1

\* After Entry, Exit, Entry the scan is inside with one Entry more than
\* Exits.
C20_Witness ==
    /\ pc = "scan" /\ inside
    /\ Len(entries) = 2 /\ Len(exits) = 1

====
